---- MODULE Spec2Model ----
(***************************************************************************)
(* The revision-set stream operators of mononoke's revset crate:           *)
(* RangeNodeStream (src/revset/src/range.rs) and UnionNodeStream           *)
(* (src/revset/src/unionnodestream.rs), polled by one caller over a        *)
(* repository whose commits form a DAG.                                    *)
(*                                                                         *)
(* Option<T> is modelled as a sequence of length at most one: <<>> is None *)
(* and <<x>> is Some(x).  A HashSet is a set; its iterator (a drain) is    *)
(* the set of elements not yet returned, and next() returns any of them,   *)
(* since the iteration order of a HashSet is unspecified.                  *)
(***************************************************************************)
EXTENDS Integers, Sequences, FiniteSets, TLC

\* Number of commits in the repository (node hashes are 1..NumNodes).
NumNodes == 4
\* Largest number of input streams handed to UnionNodeStream::new.
MaxInputs == 3
\* Largest number of hashes the input streams of a union yield in total.
MaxItems == 3
\* Length of a stream that is passed to a union twice.
MaxCopyLen == 2

VARIABLES
    operator,           \* what the caller constructed: "range", "union" or "decoder"
    repo,               \* the repository: node hash -> list of parent hashes
    start_node,         \* RangeNodeStream.start_node
    end_node,           \* the end_node given to RangeNodeStream::new
    start_generation,   \* RangeNodeStream.start_generation: <<>> until resolved
    children,           \* RangeNodeStream.children: parent HashGen -> set of child HashGen
    pending_nodes,      \* RangeNodeStream.pending_nodes: the work left in the chained stream
    output_nodes,       \* RangeNodeStream.output_nodes: Option<generation -> set of hashes>
    drain,              \* the drain field of either stream: Option<set of hashes left>
    expanded,           \* the hashes make_pending was called for, in order (history)
    previous,           \* Option<the leaf streams and the output of the union that
                        \* ran before this one> (history)
    input_streams,      \* the streams handed to UnionNodeStream::new (never changes)
    inputs,             \* UnionNodeStream.inputs: Vec<(rest of the stream, poll state)>,
                        \* each with the position id its stream had in input_streams
    current_generation, \* UnionNodeStream.current_generation: Option<Generation>
    accumulator,        \* UnionNodeStream.accumulator
    emitted,            \* the hashes poll has returned so far, in order
    state,              \* OuterDecoder.state
    buf,                \* the bytes handed to OuterDecoder::decode, not yet consumed
    frames,             \* the frames decode has returned so far, in order (history)
    bookmarks,          \* the bookmarks table: name -> Option<row of value and version>
    calls,              \* the DbBookmarks calls in progress, one per client
    result              \* what the poll in progress, or the last one, has returned

vars == <<operator, repo, start_node, end_node, start_generation, children,
          pending_nodes, output_nodes, drain, expanded, previous,
          input_streams, inputs,
          current_generation, accumulator, emitted, state, buf, frames,
          bookmarks, calls, result>>

rangeVars == <<start_node, end_node, start_generation, children, pending_nodes,
               output_nodes, expanded>>

unionVars == <<input_streams, inputs, current_generation, accumulator, previous>>

decoderVars == <<state, buf, frames>>

bookmarkVars == <<bookmarks, calls>>

\* What the revset streams never touch.
outerVars == <<decoderVars, bookmarkVars>>

\* part_outer.rs:48-57: the values of OuterState.
Header == [tag |-> "Header", part_type |-> "", part_id |-> 0]
Payload(part_type, part_id) ==
    [tag |-> "Payload", part_type |-> part_type, part_id |-> part_id]
DiscardPayload == [tag |-> "DiscardPayload", part_type |-> "", part_id |-> 0]
StreamEnd == [tag |-> "StreamEnd", part_type |-> "", part_id |-> 0]
Invalid == [tag |-> "Invalid", part_type |-> "", part_id |-> 0]

Nodes == 1..NumNodes

\* A node hash that is not in the repository.
UnknownNode == NumNodes + 1

Max(S) == CHOOSE x \in S : \A y \in S : y <= x

Range(f) == {f[i] : i \in DOMAIN f}

\* A changeset has zero, one or two parents; a parent is an older commit.
ParentLists(n) ==
    {<<>>} \cup {<<p>> : p \in 1..(n - 1)}
           \cup {pq \in (1..(n - 1)) \X (1..(n - 1)) : pq[1] # pq[2]}

\* Every repository of n commits: commit k's parents are among 1..k-1.
RECURSIVE ReposOf(_)
ReposOf(n) ==
    IF n = 0 THEN {<<>>}
    ELSE {Append(r, pl) : r \in ReposOf(n - 1), pl \in ParentLists(n)}

Repos == ReposOf(NumNodes)

\* RepoGenCache::get: 0 for a root, else one more than the highest parent.
\* For a hash that is not in the repository the lookup fails; the value here
\* is the generation NONE (0).
RECURSIVE Generation(_, _)
Generation(r, h) ==
    IF h \notin DOMAIN r THEN 0
    ELSE IF r[h] = <<>> THEN 0
    ELSE 1 + Max({Generation(r, p) : p \in Range(r[h])})

\* struct HashGen
HashGen(h, g) == [hash |-> h, generation |-> g]

EmptyMap == [x \in {} |-> {}]

\* map.entry(k).or_insert_with(HashSet::new).insert(v)
EntryInsert(map, k, v) ==
    IF k \in DOMAIN map THEN [map EXCEPT ![k] = @ \cup {v}]
    ELSE map @@ (k :> {v})

----------------------------------------------------------------------------
(* RangeNodeStream *)

\* An element of the pending stream that still needs a lookup.
\*   "end":       repo_generation.get(end_node), then make_pending of it
\*   "changeset": make_pending(child): get_changeset_by_nodeid(child.hash)
\*   "parent":    one (child, parent_hash) pair: repo_generation.get(parent_hash)
PendingEnd(h) == [kind |-> "end", child |-> HashGen(h, 0), parent_hash |-> 0]
PendingChangeset(c) == [kind |-> "changeset", child |-> c, parent_hash |-> 0]
PendingParent(c, p) == [kind |-> "parent", child |-> c, parent_hash |-> p]

\* make_pending: the changeset fetch of child, which becomes one pair per parent.
make_pending(child) == <<PendingChangeset(child)>>

\* Mutant of ParentPairs: the changeset fetch is queued again instead of being
\* replaced by the pairs of its parents.
ParentPairsRefetch(child, parents) == <<PendingChangeset(child)>>

ParentPairs(child, parents) ==
    [i \in DOMAIN parents |-> PendingParent(child, parents[i])]

RangeNew(r, s, e) ==
    /\ operator = "range"
    /\ repo = r
    /\ start_node = s
    /\ end_node = e
    /\ start_generation = <<>>
    /\ children = EmptyMap
    /\ pending_nodes = <<PendingEnd(e)>>
    /\ output_nodes = <<>>
    /\ drain = <<>>
    /\ expanded = <<>>
    /\ previous = <<>>
    /\ input_streams = <<>>
    /\ inputs = <<>>
    /\ current_generation = <<>>
    /\ accumulator = {}
    /\ emitted = <<>>
    /\ state = Header /\ buf = <<>> /\ frames = <<>>
    /\ bookmarks = <<>> /\ calls = <<>>
    /\ result = "None"

RangeInit == \E r \in Repos, s \in Nodes, e \in Nodes : RangeNew(r, s, e)

\* A range of which start or end (or both) is not in the repository.
RangeInitUnknown ==
    \E r \in Repos, s \in Nodes \cup {UnknownNode}, e \in Nodes \cup {UnknownNode} :
        /\ UnknownNode \in {s, e}
        /\ RangeNew(r, s, e)

\* Mutant of FetchError: every failed lookup is wrapped in GenerationFetchFailed.
FetchErrorOneKind(lookup) == "GenerationFetchFailed"

\* Mutant of FetchError: a failed lookup of start or end surfaces as RepoError.
FetchErrorOfRepo(lookup) ==
    IF lookup \in {"start", "end"} THEN "RepoError"
    ELSE IF lookup = "changeset" THEN "ParentsFetchFailed"
    ELSE "GenerationFetchFailed"

\* range.rs:60, 78, 98, 111: the error kind each failed lookup is wrapped in.
FetchError(lookup) ==
    IF lookup = "changeset" THEN "ParentsFetchFailed" ELSE "GenerationFetchFailed"

\* The error kinds of src/revset/src/errors.rs that a poll can return.
ErrorKinds == {"RepoError", "GenerationFetchFailed", "ParentsFetchFailed"}

\* The caller polls a range stream until it fails; a failed stream is dropped.
RangeLive == operator = "range" /\ result \notin ErrorKinds

\* poll returns Err(kind) through `?`; no field of the stream changes.
RangeFail(kind) ==
    /\ result' = kind
    /\ UNCHANGED <<operator, repo, rangeVars, drain, unionVars, outerVars,
                   emitted>>

\* Mutant of RecordsEdge: the comparison turned round.
RecordsEdgeFlipped(next_pending, start_gen) ==
    next_pending.child.generation <= start_gen

\* range.rs:206: the edge is recorded when the child is not below start.
RecordsEdge(next_pending, start_gen) ==
    next_pending.child.generation >= start_gen

\* range.rs:213: the parent is expanded when it is strictly above start.
ExpandsParent(next_pending, start_gen) ==
    next_pending.parent.generation > start_gen

\* range.rs:151: the forward walk starts from start unless children is empty.
NodesToHandle(chn, start, start_gen) ==
    IF DOMAIN chn # {} THEN {HashGen(start, start_gen)} ELSE {}

\* range.rs:160-163: every node of the working set goes into its generation's set.
InsertNodes(out, nodes) ==
    [g \in DOMAIN out \cup {hg.generation : hg \in nodes} |->
        (IF g \in DOMAIN out THEN out[g] ELSE {})
            \cup {hg.hash : hg \in {x \in nodes : x.generation = g}}]

\* range.rs:164-166: the next working set is the recorded children of this one.
ChildrenOf(chn, nodes) ==
    UNION {chn[hg] : hg \in nodes \cap DOMAIN chn}

\* range.rs:157-168: the while loop of build_output_nodes.
RECURSIVE ForwardWalk(_, _, _)
ForwardWalk(chn, out, nodes_to_handle) ==
    IF nodes_to_handle = {} THEN out
    ELSE ForwardWalk(chn, InsertNodes(out, nodes_to_handle),
                     ChildrenOf(chn, nodes_to_handle))

\* range.rs:157-159: the working sets the iterations of the while loop take
\* (replace(&mut nodes_to_handle, ..)), in order.
RECURSIVE WorkingSets(_, _)
WorkingSets(chn, nodes_to_handle) ==
    IF nodes_to_handle = {} THEN <<>>
    ELSE <<nodes_to_handle>> \o WorkingSets(chn, ChildrenOf(chn, nodes_to_handle))

build_output_nodes(chn, start, start_gen) ==
    ForwardWalk(chn, EmptyMap, NodesToHandle(chn, start, start_gen))

\* Mutant of HighestGeneration: the lowest key instead of the highest.
LowestGeneration(nodes) == CHOOSE g \in DOMAIN nodes : \A x \in DOMAIN nodes : g <= x

\* range.rs:230: the generation whose hashes are drained next.
HighestGeneration(nodes) == Max(DOMAIN nodes)

\* range.rs:181-184 and 228-244: poll once output_nodes is Some(nodes) and the
\* drain is dr: the next hash of the drain, else the first hash of the highest
\* generation left, else end-of-stream.
Stage2(dr, nodes) ==
    IF dr # <<>> /\ dr[1] # {}
    THEN \E h \in dr[1] :
            /\ drain' = <<dr[1] \ {h}>>
            /\ output_nodes' = <<nodes>>
            /\ emitted' = Append(emitted, h)
            /\ result' = "Item"
    ELSE IF DOMAIN nodes # {}
    THEN LET g == HighestGeneration(nodes)
             rest == [x \in DOMAIN nodes \ {g} |-> nodes[x]]
         IN  IF nodes[g] = {}
             THEN /\ drain' = <<{}>>
                  /\ output_nodes' = <<rest>>
                  /\ emitted' = emitted
                  /\ result' = "Panic"
             ELSE \E h \in nodes[g] :
                    /\ drain' = <<nodes[g] \ {h}>>
                    /\ output_nodes' = <<rest>>
                    /\ emitted' = Append(emitted, h)
                    /\ result' = "Item"
    ELSE /\ drain' = dr
         /\ output_nodes' = <<nodes>>
         /\ emitted' = emitted
         /\ result' = "End"

\* Mutant of InStage1: the test of output_nodes is dropped.
InStage1Always == TRUE

\* range.rs:187: Stage 1 lasts while output_nodes is None.
InStage1 == output_nodes = <<>>

\* range.rs:189: start_generation is polled for the first time.
StartGenerationDue ==
    RangeLive /\ InStage1 /\ start_generation = <<>>

\* range.rs:94-102: repo_generation.get(start_node) succeeds.
StartGenerationResolves ==
    /\ StartGenerationDue
    /\ start_node \in DOMAIN repo
    /\ start_generation' = <<Generation(repo, start_node)>>
    /\ result' = "NotReady"
    /\ UNCHANGED <<operator, repo, start_node, end_node, children,
                   pending_nodes, output_nodes, expanded, drain, unionVars, outerVars,
                   emitted>>

\* range.rs:189: the first poll of start_generation resolves start's generation.
RangeStartGeneration ==
    \/ StartGenerationResolves
    \/ StartGenerationDue /\ RangeFail(FetchError("start"))

\* range.rs:196: pending_nodes is polled and its head is of the given kind.
PendingDue(kind) ==
    /\ RangeLive /\ InStage1 /\ start_generation # <<>>
    /\ pending_nodes # <<>> /\ Head(pending_nodes).kind = kind

\* range.rs:108-122: repo_generation.get(end_node) succeeds and make_pending
\* is called for end.
EndGenerationResolves ==
    /\ PendingDue("end")
    /\ end_node \in DOMAIN repo
    /\ pending_nodes' =
            make_pending(HashGen(end_node, Generation(repo, end_node)))
                \o Tail(pending_nodes)
    /\ expanded' = Append(expanded, end_node)
    /\ result' = "NotReady"
    /\ UNCHANGED <<operator, repo, start_node, end_node, start_generation,
                   children, output_nodes, drain, unionVars, outerVars, emitted>>

\* range.rs:108-123: the generation of end resolves and make_pending(end) starts.
RangeEndGeneration ==
    \/ EndGenerationResolves
    \/ PendingDue("end") /\ RangeFail(FetchError("end"))

\* range.rs:58-64: get_changeset_by_nodeid succeeds; the parents of the head's
\* child become the (child, parent) pairs at the front of the stream.
ChangesetArrives ==
    /\ PendingDue("changeset")
    /\ pending_nodes' =
            ParentPairs(Head(pending_nodes).child,
                        repo[Head(pending_nodes).child.hash])
                \o Tail(pending_nodes)
    /\ result' = "NotReady"
    /\ UNCHANGED <<operator, repo, start_node, end_node, start_generation,
                   children, output_nodes, expanded, drain, unionVars, outerVars, emitted>>

\* range.rs:58-64: the changeset of the head's child arrives; its parents become
\* the (child, parent) pairs at the front of the stream.
RangeFetchChangeset ==
    \/ ChangesetArrives
    \/ PendingDue("changeset") /\ RangeFail(FetchError("changeset"))

\* range.rs:66-80 and 196-221: repo_generation.get(parent_hash) succeeds, the
\* stream yields the ParentChild, and the loop body records and expands it.
ParentGenerationResolves ==
    /\ PendingDue("parent")
    /\ LET head == Head(pending_nodes)
           next_pending ==
               [child |-> head.child,
                parent |-> HashGen(head.parent_hash,
                                   Generation(repo, head.parent_hash))]
           start_gen == start_generation[1]
       IN  /\ children' =
                 IF RecordsEdge(next_pending, start_gen)
                 THEN EntryInsert(children, next_pending.parent,
                                  next_pending.child)
                 ELSE children
           /\ pending_nodes' =
                 IF ExpandsParent(next_pending, start_gen)
                 THEN Tail(pending_nodes) \o make_pending(next_pending.parent)
                 ELSE Tail(pending_nodes)
           /\ expanded' =
                 IF ExpandsParent(next_pending, start_gen)
                 THEN Append(expanded, next_pending.parent.hash)
                 ELSE expanded
           /\ result' = "NotReady"
           /\ UNCHANGED <<operator, repo, start_node, end_node,
                          start_generation, output_nodes, drain, unionVars, outerVars,
                          emitted>>

\* range.rs:66-80 and 196-221: the generation of the head pair's parent arrives,
\* the stream yields the ParentChild, and the loop body records and expands it.
RangeNextPending ==
    \/ ParentGenerationResolves
    \/ PendingDue("parent") /\ RangeFail(FetchError("parent"))

\* range.rs:198-200 and 228-244: the pending stream has drained; the poll builds
\* output_nodes, leaves Stage 1 and returns the first hash or end-of-stream.
RangeBuildOutput ==
    /\ RangeLive /\ InStage1 /\ start_generation # <<>>
    /\ pending_nodes = <<>>
    /\ Stage2(drain, build_output_nodes(children, start_node, start_generation[1]))
    /\ UNCHANGED <<operator, repo, start_node, end_node, start_generation,
                   children, pending_nodes, expanded, unionVars, outerVars>>

\* range.rs:181-184 and 228-244: a poll in Stage 2.
RangePollStage2 ==
    /\ RangeLive /\ output_nodes # <<>> /\ result # "Panic"
    /\ Stage2(drain, output_nodes[1])
    /\ UNCHANGED <<operator, repo, start_node, end_node, start_generation,
                   children, pending_nodes, expanded, unionVars, outerVars>>

RangeNext ==
    \/ RangeStartGeneration
    \/ RangeEndGeneration
    \/ RangeFetchChangeset
    \/ RangeNextPending
    \/ RangeBuildOutput
    \/ RangePollStage2

----------------------------------------------------------------------------
(* UnionNodeStream *)

\* Poll<Option<(NodeHash, Generation)>, RevsetError>
NotReady == [tag |-> "NotReady", hash |-> 0, gen |-> 0]
ReadySome(h, g) == [tag |-> "Some", hash |-> h, gen |-> g]
ReadyNone == [tag |-> "None", hash |-> 0, gen |-> 0]
Err == [tag |-> "Err", hash |-> 0, gen |-> 0]

\* What one poll of an input stream can do: stay not-ready, yield its next
\* element (or end-of-stream when none is left), or fail.
Outcomes == {"NotReady", "Ready", "Err"}

\* input.poll() through add_generations: the next hash with its generation.
PollInput(r, in, outcome) ==
    CASE outcome = "NotReady" -> in
      [] outcome = "Err" -> [in EXCEPT !.state = Err]
      [] outcome = "Ready" ->
            IF in.stream = <<>> THEN [in EXCEPT !.state = ReadyNone]
            ELSE [in EXCEPT !.stream = Tail(in.stream),
                            !.state = ReadySome(Head(in.stream),
                                                Generation(r, Head(in.stream)))]

\* Mutant of poll_all_inputs: an input whose state is an error is polled again.
poll_all_inputs_again(r, ins, outcome) ==
    [i \in DOMAIN ins |->
        IF ins[i].state = NotReady THEN PollInput(r, ins[i], outcome[i])
        ELSE IF ins[i].state = Err THEN PollInput(r, ins[i], "Ready")
        ELSE ins[i]]

\* unionnodestream.rs:76-82: only the inputs whose state is NotReady are polled.
poll_all_inputs(r, ins, outcome) ==
    [i \in DOMAIN ins |->
        IF ins[i].state = NotReady THEN PollInput(r, ins[i], outcome[i])
        ELSE ins[i]]

\* Mutant of IsFinished: no state counts as finished.
IsFinishedNever(in) == FALSE

IsFinished(in) == in.state = ReadyNone

\* Mutant of gc_finished_inputs: retain keeps every input.
gc_nothing(ins) == ins

\* unionnodestream.rs:84-91
gc_finished_inputs(ins) == SelectSeq(ins, LAMBDA in : ~IsFinished(in))

\* Mutant of IsReady: only an error counts as not ready.
IsReadyUnlessError(in) == in.state.tag # "Err"

\* unionnodestream.rs:96-99
IsReady(in) == in.state.tag \in {"Some", "None"}

\* Mutant of all_inputs_ready: any() instead of all().
some_input_ready(ins) == \E i \in DOMAIN ins : IsReady(ins[i])

\* unionnodestream.rs:93-101
all_inputs_ready(ins) == \A i \in DOMAIN ins : IsReady(ins[i])

\* unionnodestream.rs:110: a state that is not Ready(Some(_)) panics.
UpdatePanics(ins) ==
    all_inputs_ready(ins) /\ \E i \in DOMAIN ins : ins[i].state.tag # "Some"

\* Mutant of MaxGeneration: min() instead of max().
MinGeneration(ins) ==
    IF DOMAIN ins = {} THEN <<>>
    ELSE <<CHOOSE g \in {ins[i].state.gen : i \in DOMAIN ins} :
                \A i \in DOMAIN ins : g <= ins[i].state.gen>>

\* Mutant of MaxGeneration: max().unwrap_or(0) instead of max().
MaxGenerationOrZero(ins) ==
    IF DOMAIN ins = {} THEN <<0>>
    ELSE <<Max({ins[i].state.gen : i \in DOMAIN ins})>>

\* unionnodestream.rs:105-113: the new band is the highest head generation.
MaxGeneration(ins) ==
    IF DOMAIN ins = {} THEN <<>>
    ELSE <<Max({ins[i].state.gen : i \in DOMAIN ins})>>

\* unionnodestream.rs:103-115
update_current_generation(ins, cur) ==
    IF all_inputs_ready(ins) THEN MaxGeneration(ins) ELSE cur

\* Mutant of InBand: a head at or below the band's generation is taken too.
InBandOrBelow(ins, cur) ==
    {i \in DOMAIN ins : ins[i].state.tag = "Some" /\ cur # <<>>
                            /\ ins[i].state.gen <= cur[1]}

\* unionnodestream.rs:120-121: the inputs whose head is in the current band.
InBand(ins, cur) ==
    {i \in DOMAIN ins : ins[i].state.tag = "Some" /\ <<ins[i].state.gen>> = cur}

\* Mutant of accumulate_nodes: the band is closed after every pass, whether or
\* not an input contributed.
accumulate_nodes_closing(ins, cur, acc) ==
    [inputs |-> [i \in DOMAIN ins |->
                    IF ins[i].state.tag = "Some" /\ <<ins[i].state.gen>> = cur
                    THEN [ins[i] EXCEPT !.state = NotReady] ELSE ins[i]],
     accumulator |-> acc \cup {ins[i].state.hash :
                        i \in {j \in DOMAIN ins : ins[j].state.tag = "Some"
                                    /\ <<ins[j].state.gen>> = cur}},
     current_generation |-> <<>>]

\* unionnodestream.rs:117-131: the fields accumulate_nodes leaves behind.
accumulate_nodes(ins, cur, acc) ==
    LET band == InBand(ins, cur)
    IN  [inputs |-> [i \in DOMAIN ins |->
                        IF i \in band THEN [ins[i] EXCEPT !.state = NotReady]
                        ELSE ins[i]],
         accumulator |-> acc \cup {ins[i].state.hash : i \in band},
         current_generation |-> IF band = {} THEN <<>> ELSE cur]

\* Mutant of IsDone: the inputs are not looked at.
IsDoneIgnoringInputs(ins, dr, acc) == dr = <<>> /\ acc = {}

\* Mutant of IsDone: the accumulator is not looked at.
IsDoneIgnoringAccumulator(ins, dr, acc) == ins = <<>> /\ dr = <<>>

\* unionnodestream.rs:178: nothing can ever be output again.
IsDone(ins, dr, acc) == ins = <<>> /\ dr = <<>> /\ acc = {}

\* Mutant of BandStep: the accumulator is copied into the drain, not moved.
BandStepCopying(ins, cur, acc) ==
    IF cur = <<>>
    THEN IF acc = {}
         THEN [inputs |-> ins, accumulator |-> acc, drain |-> <<>>,
               current_generation |-> update_current_generation(ins, cur)]
         ELSE [inputs |-> ins, accumulator |-> acc, drain |-> <<acc>>,
               current_generation |-> cur]
    ELSE accumulate_nodes(ins, cur, acc) @@ [drain |-> <<>>]

\* unionnodestream.rs:168-176: the match on current_generation, once every
\* remaining input is ready; the fields it leaves behind.
BandStep(ins, cur, acc) ==
    IF cur = <<>>
    THEN IF acc = {}
         THEN [inputs |-> ins, accumulator |-> acc, drain |-> <<>>,
               current_generation |-> update_current_generation(ins, cur)]
         ELSE [inputs |-> ins, accumulator |-> {}, drain |-> <<acc>>,
               current_generation |-> cur]
    ELSE accumulate_nodes(ins, cur, acc) @@ [drain |-> <<>>]

\* Mutant of HasError: the states of the inputs are never looked at.
HasErrorNever(ins) == FALSE

\* Mutant of HasError: only the first input's state is looked at.
HasErrorInFirst(ins) == ins # <<>> /\ ins[1].state = Err

\* unionnodestream.rs:152-159: some input's state is an error.
HasError(ins) == \E i \in DOMAIN ins : ins[i].state = Err

\* unionnodestream.rs:55-74, over a repository of one root and its children.
UnionNew(streams) ==
    /\ operator = "union"
    /\ repo = [n \in Nodes |-> IF n = 1 THEN <<>> ELSE <<1>>]
    /\ start_node = 1
    /\ end_node = 1
    /\ start_generation = <<>>
    /\ children = EmptyMap
    /\ pending_nodes = <<>>
    /\ output_nodes = <<>>
    /\ drain = <<>>
    /\ expanded = <<>>
    /\ previous = <<>>
    /\ input_streams = streams
    /\ inputs = [i \in DOMAIN streams |->
                    [stream |-> streams[i], state |-> NotReady, id |-> i]]
    /\ current_generation = <<>>
    /\ accumulator = {}
    /\ emitted = <<>>
    /\ state = Header /\ buf = <<>> /\ frames = <<>>
    /\ bookmarks = <<>> /\ calls = <<>>
    /\ result = "None"

\* The hashes the inputs of a union draw from: a root and two children of it,
\* so that two hashes share a generation.
UnionHashes == {1, 2, 3}

SeqsOf(S, n) == UNION {[1..k -> S] : k \in 0..n}

\* Every list of at most MaxInputs streams yielding at most MaxItems hashes.
RECURSIVE StreamLists(_, _)
StreamLists(n, items) ==
    IF n = 0 THEN {<<>>}
    ELSE {<<>>} \cup
         UNION {{<<s>> \o rest : rest \in StreamLists(n - 1, items - Len(s))} :
                    s \in SeqsOf(UnionHashes, items)}

\* Two copies of every stream of at most MaxCopyLen hashes.
DoubledStreams == {<<s, s>> : s \in SeqsOf(UnionHashes, MaxCopyLen)}

UnionInit ==
    \E streams \in StreamLists(MaxInputs, MaxItems) \cup DoubledStreams :
        UnionNew(streams)

\* The inputs that the next poll_all_inputs polls.
Polled == {i \in DOMAIN inputs : inputs[i].state = NotReady}

\* unionnodestream.rs:142-180: the body of the loop of poll when the polls of
\* the not-ready inputs have the given outcomes.
UnionTurn(outcome) ==
        LET polled == poll_all_inputs(repo, inputs, outcome)
            kept == gc_finished_inputs(polled)
            after == BandStep(kept, current_generation, accumulator)
        IN  IF drain # <<>> /\ drain[1] # {}
            THEN \E h \in drain[1] :
                    /\ drain' = <<drain[1] \ {h}>>
                    /\ inputs' = polled
                    /\ emitted' = Append(emitted, h)
                    /\ result' = "Item"
                    /\ UNCHANGED <<current_generation, accumulator>>
            ELSE IF HasError(polled)
            THEN /\ drain' = <<>>
                 /\ inputs' = polled
                 /\ result' = "Err"
                 /\ UNCHANGED <<current_generation, accumulator, emitted>>
            ELSE IF ~all_inputs_ready(kept)
            THEN /\ drain' = <<>>
                 /\ inputs' = kept
                 /\ result' = "NotReady"
                 /\ UNCHANGED <<current_generation, accumulator, emitted>>
            ELSE IF current_generation = <<>> /\ accumulator = {} /\ UpdatePanics(kept)
            THEN /\ drain' = <<>>
                 /\ inputs' = kept
                 /\ result' = "Panic"
                 /\ UNCHANGED <<current_generation, accumulator, emitted>>
            ELSE /\ drain' = after.drain
                 /\ inputs' = after.inputs
                 /\ current_generation' = after.current_generation
                 /\ accumulator' = after.accumulator
                 /\ result' = IF IsDone(after.inputs, after.drain, after.accumulator)
                              THEN "End" ELSE "Continue"
                 /\ UNCHANGED emitted

\* unionnodestream.rs:140-181: one turn of the loop of poll, from polling the
\* inputs to a return or to the next turn ("Continue").
UnionPoll ==
    /\ operator = "union" /\ result # "Panic"
    /\ \E outcome \in [Polled -> Outcomes] : UnionTurn(outcome)
    /\ UNCHANGED <<operator, repo, rangeVars, outerVars, input_streams,
                   previous>>

UnionNext == UnionPoll

Init == RangeInit \/ RangeInitUnknown \/ UnionInit

Next == RangeNext \/ UnionNext

Spec == Init /\ [][Next]_vars

----------------------------------------------------------------------------
(* A caller that keeps polling a stream whose lookups and inputs do not fail *)

\* range.rs:179-245: a step of the range in which the lookup that completes
\* (if any) succeeds.
RangeLookupsSucceed ==
    \/ StartGenerationResolves
    \/ EndGenerationResolves
    \/ ChangesetArrives
    \/ ParentGenerationResolves
    \/ RangeBuildOutput
    \/ RangePollStage2

\* unionnodestream.rs:140-181: a turn of poll in which no polled input fails.
UnionInputsSucceed ==
    /\ operator = "union" /\ result # "Panic"
    /\ \E outcome \in [Polled -> {"NotReady", "Ready"}] : UnionTurn(outcome)
    /\ UNCHANGED <<operator, repo, rangeVars, outerVars, input_streams,
                   previous>>

\* A caller that polls the range again after every result, every lookup
\* completing successfully.
LiveRangeSpec ==
    RangeInit /\ [][RangeLookupsSucceed]_vars /\ WF_vars(RangeLookupsSucceed)

\* A caller that polls the union again after every result, the inputs never
\* failing and never all staying not-ready forever (a turn that changes
\* nothing is a stuttering step).
LiveUnionSpec ==
    UnionInit /\ [][UnionInputsSucceed]_vars /\ WF_vars(UnionInputsSucceed)

----------------------------------------------------------------------------
(* A second union built once a first one has ended *)

\* unionnodestream.rs:55-74: UnionNodeStream::new over the given streams, after
\* a union whose leaf streams and output are remembered in prev.
UnionRestart(streams, prev) ==
    /\ input_streams' = streams
    /\ inputs' = [i \in DOMAIN streams |->
                    [stream |-> streams[i], state |-> NotReady, id |-> i]]
    /\ current_generation' = <<>>
    /\ accumulator' = {}
    /\ drain' = <<>>
    /\ emitted' = <<>>
    /\ result' = "None"
    /\ previous' = <<prev>>
    /\ UNCHANGED <<operator, repo, rangeVars, outerVars>>

\* The same input streams handed to UnionNodeStream::new in another order.
UnionPermuted ==
    /\ operator = "union" /\ result = "End" /\ previous = <<>>
    /\ \E p \in Permutations(DOMAIN input_streams) :
            UnionRestart([i \in DOMAIN input_streams |-> input_streams[p[i]]],
                         [leaves |-> input_streams, emitted |-> emitted])

RECURSIVE ItemsOf(_)
ItemsOf(streams) ==
    IF streams = <<>> THEN 0 ELSE Len(Head(streams)) + ItemsOf(Tail(streams))

\* unionnodestream.rs:279-296 (test union_nesting): the ended union is the
\* first input of an outer union, followed by further streams; what the outer
\* union can get from it is the sequence it emitted.
UnionNested ==
    /\ operator = "union" /\ result = "End" /\ previous = <<>>
    /\ \E others \in StreamLists(MaxInputs - Len(input_streams),
                                  MaxItems - ItemsOf(input_streams)) :
            UnionRestart(<<emitted>> \o others,
                         [leaves |-> input_streams \o others,
                          emitted |-> emitted])

\* A union polled to its end, then a union over the same inputs in another
\* order.
PermutedSpec == UnionInit /\ [][UnionPoll \/ UnionPermuted]_vars

\* A union polled to its end while no input fails, then an outer union around
\* it (a failing input ends either union with the error, before any
\* end-of-stream).
NestedSpec == UnionInit /\ [][UnionInputsSucceed \/ UnionNested]_vars

----------------------------------------------------------------------------
(* OuterDecoder (src/mercurial-bundles/src/part_outer.rs) *)

\* The longest buffer handed to decode.
MaxBuf == 5
\* The number of frames after which decode is not called again.
MaxFrames == 4

\* The byte values the stream is made of: those of the lengths 0 and 1, and
\* 255, of which the length -1 is made.
ByteValues == {0, 1, 255}

\* The part types and part ids a valid part header can carry.
PartTypes == {"changegroup", "listkeys"}
PartIds == {0, 1}

\* part_outer.rs:251-264: the values of OuterFrame.
HeaderFrame(part_type, part_id) ==
    [kind |-> "Header", part_type |-> part_type, part_id |-> part_id,
     payload |-> <<>>]
PayloadFrame(part_type, part_id, payload) ==
    [kind |-> "Payload", part_type |-> part_type, part_id |-> part_id,
     payload |-> payload]
PartEndFrame(part_type, part_id) ==
    [kind |-> "PartEnd", part_type |-> part_type, part_id |-> part_id,
     payload |-> <<>>]
DiscardFrame ==
    [kind |-> "Discard", part_type |-> "", part_id |-> 0, payload |-> <<>>]
StreamEndFrame ==
    [kind |-> "StreamEnd", part_type |-> "", part_id |-> 0, payload |-> <<>>]
\* What stands for the panic of payload_frame and part_end_frame.
NoFrame ==
    [kind |-> "panic", part_type |-> "", part_id |-> 0, payload |-> <<>>]

\* part_outer.rs:220: the first four bytes as a big-endian i32.
peek_i32(b) ==
    (IF b[1] >= 128 THEN b[1] - 256 ELSE b[1]) * 16777216
        + b[2] * 65536 + b[3] * 256 + b[4]

\* part_outer.rs:131-138: the length prefix or the header is not all there.
\* header_len is a u32: one of 2^31 or more, which peek_i32 reads as
\* negative, is longer than any buffer.
HeaderIncomplete(b) ==
    \/ Len(b) < 4
    \/ peek_i32(b) < 0
    \/ Len(b) < 4 + peek_i32(b)

\* The bytes left once the first n are split off.
SplitOff(b, n) == SubSeq(b, n + 1, Len(b))

\* part_outer.rs:64-77.
payload_frame(st, data) ==
    IF st.tag = "Payload" THEN PayloadFrame(st.part_type, st.part_id, data)
    ELSE IF st.tag = "DiscardPayload" THEN DiscardFrame
    ELSE NoFrame

\* Mutant of part_end_frame: a discarded part ends with PartEnd too.
part_end_frame_always(st) == PartEndFrame(st.part_type, st.part_id)

\* part_outer.rs:79-88.
part_end_frame(st) ==
    IF st.tag = "Payload" THEN PartEndFrame(st.part_type, st.part_id)
    ELSE IF st.tag = "DiscardPayload" THEN DiscardFrame
    ELSE NoFrame

\* part_outer.rs:188-199: what decode_header can return for the bytes of a
\* header: a recognised header, None for a part that is not recognised, an
\* application error, or another error.
HeaderOutcomes ==
    {[tag |-> "Some", part_type |-> t, part_id |-> i] :
        t \in PartTypes, i \in PartIds}
    \cup {[tag |-> tg, part_type |-> "", part_id |-> 0] :
            tg \in {"None", "AppError", "Error"}}

\* decode returns ret ("None" for Ok(None), "Frame" for Ok(Some(frame)), else
\* the error: "AppError" and "DecodeError" are the application error and any
\* other error of decode_header), having emitted the frames fr, and leaves
\* the decoder in next_state with the bytes rest (part_outer.rs:102-104).
Returns(ret, fr, next_state, rest) ==
    /\ result' = ret
    /\ frames' = frames \o fr
    /\ state' = next_state
    /\ buf' = rest

\* part_outer.rs:124-172: decode_next in the Header state.
DecodeHeader ==
    /\ state = Header
    /\ IF HeaderIncomplete(buf)
       THEN Returns("None", <<>>, Header, buf)
       ELSE IF peek_i32(buf) = 0
       THEN Returns("Frame", <<StreamEndFrame>>, StreamEnd, buf)
       ELSE LET rest == SplitOff(buf, 4 + peek_i32(buf))
            IN  \E part_header \in HeaderOutcomes :
                    IF part_header.tag = "AppError"
                    THEN Returns("AppError", <<>>, DiscardPayload, rest)
                    ELSE IF part_header.tag = "Error"
                    THEN Returns("DecodeError", <<>>, Invalid, rest)
                    ELSE IF part_header.tag = "None"
                    THEN Returns("Frame", <<DiscardFrame>>, DiscardPayload,
                                 rest)
                    ELSE Returns("Frame",
                                 <<HeaderFrame(part_header.part_type,
                                               part_header.part_id)>>,
                                 Payload(part_header.part_type,
                                         part_header.part_id),
                                 rest)

\* part_outer.rs:174-177, 201-247: decode_payload and decode_payload_chunk.
\* A total_len of -4..-1, taken as a usize, overflows total_len + 4: a build
\* with overflow checks panics there, one without panics in split_to after
\* drain_i32; decode has left Invalid in the state by then (line 102).
DecodePayload ==
    /\ state.tag \in {"Payload", "DiscardPayload"}
    /\ IF Len(buf) < 4
       THEN Returns("None", <<>>, state, buf)
       ELSE LET total_len == peek_i32(buf)
            IN  IF total_len = 0
                THEN Returns("Frame", <<part_end_frame(state)>>, Header,
                             SplitOff(buf, 4))
                ELSE IF total_len \in -4..-1
                THEN \E rest \in {buf, SplitOff(buf, 4)} :
                        Returns("Panic", <<>>, Invalid, rest)
                ELSE IF total_len < 0 \/ Len(buf) < total_len + 4
                THEN Returns("None", <<>>, state, buf)
                ELSE Returns("Frame",
                             <<payload_frame(state,
                                             SubSeq(buf, 5, 4 + total_len))>>,
                             state, SplitOff(buf, 4 + total_len))

\* Mutant of DecodeStreamEnd: the decoder goes back to reading headers.
DecodeStreamEndResumes ==
    /\ state = StreamEnd
    /\ Returns("Frame", <<StreamEndFrame>>, Header, buf)

\* part_outer.rs:179.
DecodeStreamEnd ==
    /\ state = StreamEnd
    /\ Returns("Frame", <<StreamEndFrame>>, StreamEnd, buf)

\* Mutant of DecodeInvalid: the decoder goes back to reading headers.
DecodeInvalidResumes ==
    /\ state = Invalid
    /\ Returns("ByteStreamCorrupt", <<>>, Header, buf)

\* part_outer.rs:181-184: the Bundle2Decode error "byte stream corrupt".
DecodeInvalid ==
    /\ state = Invalid
    /\ Returns("ByteStreamCorrupt", <<>>, Invalid, buf)

\* part_outer.rs:101-105: one call of decode.
Decode ==
    /\ operator = "decoder"
    /\ Len(frames) < MaxFrames
    /\ \/ DecodeHeader
       \/ DecodePayload
       \/ DecodeStreamEnd
       \/ DecodeInvalid
    /\ UNCHANGED <<operator, repo, rangeVars, unionVars, bookmarkVars, drain,
                   emitted>>

\* The framed stream reads one more byte into the buffer between two calls
\* of decode.
Feed ==
    /\ operator = "decoder"
    /\ Len(buf) < MaxBuf
    /\ \E b \in ByteValues : buf' = Append(buf, b)
    /\ UNCHANGED <<operator, repo, rangeVars, unionVars, bookmarkVars, drain,
                   emitted, state, frames, result>>

\* part_outer.rs:109-114: OuterDecoder::new.
DecoderInit ==
    /\ operator = "decoder"
    /\ repo = <<>>
    /\ start_node = 1
    /\ end_node = 1
    /\ start_generation = <<>>
    /\ children = EmptyMap
    /\ pending_nodes = <<>>
    /\ output_nodes = <<>>
    /\ drain = <<>>
    /\ expanded = <<>>
    /\ previous = <<>>
    /\ input_streams = <<>>
    /\ inputs = <<>>
    /\ current_generation = <<>>
    /\ accumulator = {}
    /\ emitted = <<>>
    /\ state = Header /\ buf = <<>> /\ frames = <<>>
    /\ bookmarks = <<>> /\ calls = <<>>
    /\ result = "None"

DecoderNext == Decode \/ Feed

DecoderSpec == DecoderInit /\ [][DecoderNext]_vars

----------------------------------------------------------------------------
(* DbBookmarks (src/bookmarks/dbbookmarks/src/lib.rs) over its MySQL table.  *)
(* Every statement succeeds.  A transaction is started with the default     *)
(* TransactionOptions: its SELECT is a plain read of the committed rows, and *)
(* its write locks the row until the commit.                                 *)

\* The highest version a row of the table starts with.
MaxVersion == 1

\* The clients calling set and delete, one call each; client c sets the
\* NodeHash c.
Clients == {1, 2}

\* The bookmark names.
BookmarkKeys == {"master", "stable"}

\* The NodeHash of the rows the table starts with.
InitialValue == 3

\* storage_types::Version is Option<u64>: <<>> is Version::absent().
Versions == {<<>>} \cup {<<v>> : v \in 0..MaxVersion}

\* lib.rs:175: the value column holds the hex form of the NodeHash.
to_hex(value) == <<"hex", value>>

\* The version column of an Option<row>, as the rows of
\* "SELECT version FROM bookmarks WHERE name = ?" (lib.rs:159).
SelectVersion(row) == IF row = <<>> THEN <<>> ELSE <<row[1].version>>

\* lib.rs:169: Version::absent() when the key has no row.
old_version(rows) == rows

\* Mutant of new_version: the version that was read is returned.
new_version_as_read(rows) == IF rows = <<>> THEN <<0>> ELSE <<rows[1]>>

\* lib.rs:170.
new_version(rows) == IF rows = <<>> THEN <<0>> ELSE <<rows[1] + 1>>

\* lib.rs:176-181: INSERT .. VALUES (:key, :value, 0) ON DUPLICATE KEY UPDATE
\* value = :value, version = version + 1, applied to the row as it is when
\* the statement runs.
Upsert(row, value) ==
    IF row = <<>> THEN <<[value |-> to_hex(value), version |-> 0]>>
    ELSE <<[value |-> to_hex(value), version |-> row[1].version + 1]>>

NoCall ==
    [pc |-> "idle", op |-> "none", key |-> "", value |-> 0, version |-> <<>>,
     rows |-> <<>>, write |-> <<>>, before |-> <<>>, ret |-> <<>>]

\* The row of key is locked by the uncommitted write of another client.
Locked(c, key) ==
    \E d \in Clients \ {c} : calls[d].pc = "written" /\ calls[d].key = key

\* lib.rs:96-102, 104-109: set or delete is called; `before` remembers the
\* row of the key at the call (history).
Call(c) ==
    /\ calls[c].pc = "idle"
    /\ \E op \in {"set", "delete"}, key \in BookmarkKeys, version \in Versions :
            calls' = [calls EXCEPT ![c] =
                        [NoCall EXCEPT !.pc = "called", !.op = op,
                                       !.key = key, !.value = c,
                                       !.version = version,
                                       !.before = bookmarks[key]]]
    /\ UNCHANGED bookmarks

\* lib.rs:152-161: start_transaction, then the SELECT of the current version.
SetSelect(c) ==
    /\ calls[c].pc = "called" /\ calls[c].op = "set"
    /\ calls' = [calls EXCEPT ![c].pc = "selected",
                              ![c].rows = SelectVersion(bookmarks[calls[c].key])]
    /\ UNCHANGED bookmarks

\* lib.rs:173-181: the version matches, the INSERT .. ON DUPLICATE KEY UPDATE
\* runs; it waits while another transaction holds the row.
SetWrite(c) ==
    /\ calls[c].pc = "selected"
    /\ calls[c].version = old_version(calls[c].rows)
    /\ ~Locked(c, calls[c].key)
    /\ calls' = [calls EXCEPT ![c].pc = "written",
                              ![c].write = Upsert(bookmarks[calls[c].key],
                                                  calls[c].value)]
    /\ UNCHANGED bookmarks

\* lib.rs:182-186: commit, and Some(new_version) is returned.
SetCommit(c) ==
    /\ calls[c].pc = "written"
    /\ bookmarks' = [bookmarks EXCEPT ![calls[c].key] = calls[c].write]
    /\ calls' = [calls EXCEPT ![c].pc = "done",
                              ![c].ret = <<new_version(calls[c].rows)>>]

\* lib.rs:187-189: the version does not match, None is returned.
SetMismatch(c) ==
    /\ calls[c].pc = "selected"
    /\ calls[c].version # old_version(calls[c].rows)
    /\ calls' = [calls EXCEPT ![c].pc = "done", ![c].ret = <<>>]
    /\ UNCHANGED bookmarks

\* lib.rs:205-215: DELETE .. WHERE name = :key AND version = :v; it waits
\* while a transaction holds the row.
DeleteVersion(c) ==
    /\ calls[c].pc = "called" /\ calls[c].op = "delete"
    /\ calls[c].version # <<>>
    /\ ~Locked(c, calls[c].key)
    /\ LET row == bookmarks[calls[c].key]
       IN  IF SelectVersion(row) = calls[c].version
           THEN /\ bookmarks' = [bookmarks EXCEPT ![calls[c].key] = <<>>]
                /\ calls' = [calls EXCEPT ![c].pc = "done",
                                          ![c].ret = <<<<>>>>]
           ELSE /\ calls' = [calls EXCEPT ![c].pc = "done", ![c].ret = <<>>]
                /\ UNCHANGED bookmarks

\* lib.rs:216-228: the absent version was passed; the key must have no row.
DeleteAbsent(c) ==
    /\ calls[c].pc = "called" /\ calls[c].op = "delete"
    /\ calls[c].version = <<>>
    /\ calls' = [calls EXCEPT ![c].pc = "done",
                    ![c].ret = IF bookmarks[calls[c].key] = <<>>
                               THEN <<<<>>>> ELSE <<>>]
    /\ UNCHANGED bookmarks

BookmarksStep(c) ==
    /\ operator = "bookmarks"
    /\ \/ Call(c)
       \/ SetSelect(c)
       \/ SetWrite(c)
       \/ SetCommit(c)
       \/ SetMismatch(c)
       \/ DeleteVersion(c)
       \/ DeleteAbsent(c)
    /\ UNCHANGED <<operator, repo, rangeVars, unionVars, decoderVars, drain,
                   emitted, result>>

\* The table before the calls: every key has no row, or a row of some
\* version.
BookmarksInit ==
    /\ operator = "bookmarks"
    /\ repo = <<>>
    /\ start_node = 1
    /\ end_node = 1
    /\ start_generation = <<>>
    /\ children = EmptyMap
    /\ pending_nodes = <<>>
    /\ output_nodes = <<>>
    /\ drain = <<>>
    /\ expanded = <<>>
    /\ previous = <<>>
    /\ input_streams = <<>>
    /\ inputs = <<>>
    /\ current_generation = <<>>
    /\ accumulator = {}
    /\ emitted = <<>>
    /\ state = Header /\ buf = <<>> /\ frames = <<>>
    /\ bookmarks \in [BookmarkKeys ->
            {<<>>} \cup {<<[value |-> to_hex(InitialValue), version |-> v]>> :
                            v \in 0..MaxVersion}]
    /\ calls = [c \in Clients |-> NoCall]
    /\ result = "None"

\* The calls of the clients interleave statement by statement.
BookmarksNext == \E c \in Clients : BookmarksStep(c)

BookmarksSpec == BookmarksInit /\ [][BookmarksNext]_vars

\* No other client is inside a call.
OnItsOwn(c) == \A d \in Clients \ {c} : calls[d].pc \in {"idle", "done"}

\* Every call runs on its own, from the call to its return.
SerialNext == \E c \in Clients : OnItsOwn(c) /\ BookmarksStep(c)

SerialSpec == BookmarksInit /\ [][SerialNext]_vars

----------------------------------------------------------------------------
(* Vocabulary of the properties *)

Gen(h) == Generation(repo, h)

\* a is d, or a parent of d, or a parent of a parent of d, ...
RECURSIVE IsAncestorOrEqual(_, _, _)
IsAncestorOrEqual(r, a, d) ==
    a = d \/ (d \in DOMAIN r /\ \E p \in Range(r[d]) : IsAncestorOrEqual(r, a, p))

\* The nodes on a parent-edge path from end_node down to start_node.
OnPath(n) ==
    IsAncestorOrEqual(repo, start_node, n) /\ IsAncestorOrEqual(repo, n, end_node)

NoDuplicates(seq) ==
    \A i \in DOMAIN seq : \A j \in DOMAIN seq : seq[i] = seq[j] => i = j

NonIncreasing(seq) ==
    \A i \in DOMAIN seq : \A j \in DOMAIN seq : i < j => Gen(seq[i]) >= Gen(seq[j])

\* Every input stream yields its hashes in non-increasing generation order.
InputsOrdered == \A i \in DOMAIN input_streams : NonIncreasing(input_streams[i])

InputHashes == UNION {Range(input_streams[i]) : i \in DOMAIN input_streams}

AnyInputFailed == \E i \in DOMAIN inputs : inputs[i].state.tag = "Err"

----------------------------------------------------------------------------
(* Properties *)

\* C1: every hash a range emits lies on a parent-edge path from end down to
\* start; in particular nothing is emitted when start is no ancestor of end.
C1_EmittedOnPath ==
    operator = "range" => \A i \in DOMAIN emitted : OnPath(emitted[i])

\* C2: when start is an ancestor-or-equal of end and the range reaches
\* end-of-stream, every node on a path from end down to start was emitted.
C2_AllOnPathEmitted ==
    (operator = "range" /\ result = "End"
        /\ IsAncestorOrEqual(repo, start_node, end_node))
    => \A n \in Nodes : OnPath(n) => n \in Range(emitted)

\* C3: a range from a node to itself emits exactly that node, then ends.
C3_Reflexive ==
    (operator = "range" /\ start_node = end_node)
    => /\ emitted \in {<<>>, <<start_node>>}
       /\ result = "End" => emitted = <<start_node>>

\* C4: when end's generation is below start's, the backward walk records no
\* edge in children and the range ends without emitting a hash.
C4_SwappedIsEmpty ==
    (operator = "range" /\ Gen(end_node) < Gen(start_node))
    => /\ children = EmptyMap
       /\ emitted = <<>>
       /\ result # "Item"
       /\ output_nodes # <<>> => result = "End"

\* C4 witness: swapped endpoints of a chain, polled to end-of-stream after
\* the walk looked at an edge.
C4_Witness ==
    /\ operator = "range" /\ result = "End"
    /\ Gen(end_node) < Gen(start_node)
    /\ start_node # end_node /\ IsAncestorOrEqual(repo, end_node, start_node)
    /\ repo[end_node] # <<>>

\* C5: no hash is emitted twice, by a union whose inputs are generation-ordered
\* or by a range.
C5_NoHashTwice ==
    (operator = "union" => InputsOrdered) => NoDuplicates(emitted)

\* C5 witness: a finished union of generation-ordered inputs that yielded more
\* hashes than there are distinct ones (two inputs, or one input twice).
C5_Witness ==
    /\ operator = "union" /\ result = "End" /\ InputsOrdered
    /\ Len(input_streams) >= 2
    /\ \E h \in Range(input_streams[1]) : h \in Range(input_streams[2])

\* C6: when a union reaches end-of-stream, the hashes it emitted are exactly
\* the hashes its inputs yielded.
C6_UnionIsSetUnion ==
    (operator = "union" /\ result = "End") => Range(emitted) = InputHashes

\* C6 witness: a finished union of two inputs with different hashes.
C6_Witness ==
    /\ operator = "union" /\ result = "End"
    /\ Len(input_streams) >= 2
    /\ input_streams[1] # <<>> /\ input_streams[2] # <<>>
    /\ Range(input_streams[1]) \cap Range(input_streams[2]) = {}

\* C7: a union of generation-ordered inputs never emits a hash of higher
\* generation after one of lower generation.
C7_UnionDescending ==
    (operator = "union" /\ InputsOrdered) => NonIncreasing(emitted)

\* C7 witness: three single-node inputs passed lowest generation first, all
\* emitted.
C7_Witness ==
    /\ operator = "union" /\ result = "End"
    /\ Len(input_streams) = 3
    /\ \A i \in 1..3 : Len(input_streams[i]) = 1
    /\ Gen(input_streams[1][1]) < Gen(input_streams[2][1])
    /\ Len(emitted) = 3

\* Every commit has at most one parent.
LinearRepo == \A n \in Nodes : Len(repo[n]) <= 1

\* seq goes from end_node to start_node, each element the parent of the one
\* before it.
IsChainFromEndToStart(seq) ==
    /\ seq # <<>>
    /\ seq[1] = end_node
    /\ seq[Len(seq)] = start_node
    /\ \A i \in 1..(Len(seq) - 1) : repo[seq[i]] = <<seq[i + 1]>>

\* C8: a range never emits a hash of higher generation after one of lower
\* generation; on a linear chain with start a proper ancestor of end it emits
\* end, then each node's parent in turn, and start last.
C8_RangeDescending ==
    operator = "range"
    => /\ NonIncreasing(emitted)
       /\ (/\ LinearRepo /\ result = "End" /\ start_node # end_node
           /\ IsAncestorOrEqual(repo, start_node, end_node))
          => IsChainFromEndToStart(emitted)

\* C8 witness: the whole of a four-commit chain has been emitted.
C8_Witness ==
    /\ operator = "range" /\ result = "End" /\ LinearRepo
    /\ start_node # end_node /\ Len(emitted) >= 4

\* C9 as claimed: consecutively emitted hashes have strictly decreasing
\* generations.
C9_StrictlyDescending ==
    (operator = "union" => InputsOrdered)
    => \A i \in 1..(Len(emitted) - 1) : Gen(emitted[i]) > Gen(emitted[i + 1])

\* C9 as amended: consecutively emitted hashes never increase in generation,
\* and two that share a generation are different hashes.
C9_ConsecutiveNonIncreasing ==
    (operator = "union" => InputsOrdered)
    => \A i \in 1..(Len(emitted) - 1) :
            /\ Gen(emitted[i]) >= Gen(emitted[i + 1])
            /\ emitted[i] # emitted[i + 1]

\* C9 witness: a finished range over a merge whose two parents share a
\* generation and were emitted one after the other.
C9_Witness ==
    /\ operator = "range" /\ result = "End"
    /\ Len(repo[end_node]) = 2
    /\ \E i \in 1..(Len(emitted) - 1) :
            /\ Gen(emitted[i]) = Gen(emitted[i + 1])
            /\ {emitted[i], emitted[i + 1]} = Range(repo[end_node])

\* C10: once an input of a union has failed, no turn of poll returns
\* end-of-stream or not-ready, none touches the band (current_generation,
\* accumulator) or refills the drain, and a turn that finds the drain empty
\* returns the error.
C10_ErrorStopsUnion ==
    [][(operator = "union" /\ AnyInputFailed')
        => /\ result' \in {"Item", "Err"}
           /\ current_generation' = current_generation
           /\ accumulator' = accumulator
           /\ (drain = <<>> \/ drain[1] = {}) => result' = "Err"
           /\ result' = "Item" =>
                /\ drain # <<>> /\ drain' # <<>>
                /\ drain'[1] \subseteq drain[1] /\ drain'[1] # drain[1]]_vars

\* C10 witness: the union returned the error of one input while another input
\* is ready with a hash and a third is not ready.
C10_Witness ==
    /\ operator = "union" /\ result = "Err"
    /\ \E i \in DOMAIN inputs : inputs[i].state.tag = "Some"
    /\ \E i \in DOMAIN inputs : inputs[i].state.tag = "NotReady"

\* An input of the union that has been not-ready at every poll so far: its
\* state is still NotReady and its stream has yielded nothing.
NeverReady(in) == in.state = NotReady /\ in.stream = input_streams[in.id]

LastEmitted == emitted[Len(emitted)]

\* C11: the turn of poll in which an input's poll returns an error finds the
\* drain empty and returns the error, and no turn emits a hash once an input
\* has failed.
C11_ErrorBeforeEmitting ==
    [][(operator = "union" /\ AnyInputFailed')
        => /\ result' = "Err"
           /\ emitted' = emitted
           /\ drain = <<>> \/ drain[1] = {}]_vars

\* C11 witness: the union returned an input's error after it had emitted a
\* hash, with hashes of the next band in the accumulator that are never emitted.
C11_Witness ==
    /\ operator = "union" /\ result = "Err"
    /\ emitted # <<>>
    /\ accumulator # {}

\* C12: a union built over no input returns end-of-stream from its first
\* poll on, never not-ready and never an error, and emits nothing.
C12_EmptyUnionEnds ==
    (operator = "union" /\ input_streams = <<>> /\ result # "None")
    => result = "End" /\ emitted = <<>>

\* C12 witness: a union over no input has been polled and returned
\* end-of-stream.
C12_Witness ==
    operator = "union" /\ input_streams = <<>> /\ result = "End"

\* C13: while some input has never been ready and no input has failed, every
\* poll returns not-ready and nothing is emitted; and whenever a hash is
\* emitted, every input still held has a head of another generation.
C13_WaitsForEveryInput ==
    operator = "union" =>
        /\ ((\E i \in DOMAIN inputs : NeverReady(inputs[i])) /\ ~AnyInputFailed)
            => emitted = <<>> /\ result \in {"None", "NotReady"}
        /\ result = "Item"
            => \A i \in DOMAIN inputs :
                    /\ inputs[i].state.tag = "Some"
                    /\ inputs[i].state.gen # Gen(LastEmitted)

\* C13 witness: the union returned not-ready because one input has never been
\* ready, while two other inputs hold a hash each.
C13_Witness ==
    /\ operator = "union" /\ result = "NotReady"
    /\ \E i \in DOMAIN inputs : NeverReady(inputs[i])
    /\ \E i, j \in DOMAIN inputs :
            i # j /\ inputs[i].state.tag = "Some" /\ inputs[j].state.tag = "Some"

\* C14: when the union returns end-of-stream no input is left, the drain is
\* gone, the accumulator is empty, and every hash an input could yield has
\* been emitted.
C14_EndOnlyWhenExhausted ==
    (operator = "union" /\ result = "End")
    => /\ inputs = <<>>
       /\ drain = <<>>
       /\ accumulator = {}
       /\ InputHashes \subseteq Range(emitted)

\* C14 witness: the union ended after three inputs had yielded hashes of two
\* generations.
C14_Witness ==
    /\ operator = "union" /\ result = "End"
    /\ Len(input_streams) = 3
    /\ \E i, j \in DOMAIN emitted : Gen(emitted[i]) # Gen(emitted[j])

\* C15: when no input fails, every not-ready input becomes ready in the end
\* and the caller keeps polling, the union returns end-of-stream.
C15_UnionEnds == <>(operator = "union" /\ result = "End")

\* C15 witness: the union reached end-of-stream over three inputs, having
\* emitted hashes of two generations.
C15_Witness ==
    /\ operator = "union" /\ result = "End"
    /\ Len(input_streams) = 3 /\ Len(emitted) >= 2
    /\ Gen(emitted[1]) # Gen(LastEmitted)

\* C19: when every lookup completes successfully and the caller keeps
\* polling, the range returns end-of-stream: the backward walk drains and the
\* forward walk and the emission finish.
C19_RangeEnds == <>(operator = "range" /\ result = "End")

\* C19 witness: a range over a merge ended after emitting at least three
\* hashes.
C19_Witness ==
    /\ operator = "range" /\ result = "End"
    /\ Len(repo[end_node]) = 2
    /\ Len(emitted) >= 3

\* C20: make_pending is called at most once for any node during the backward
\* walk, also for a node that is reached along several paths.
C20_ExpandedOnce == operator = "range" => NoDuplicates(expanded)

\* The leaf streams of the union: its inputs, or, for a union built after
\* another one, the streams remembered for it.
Leaves == IF previous = <<>> THEN input_streams ELSE previous[1].leaves

LeafHashes == UNION {Range(Leaves[i]) : i \in DOMAIN Leaves}

LeavesOrdered == \A i \in DOMAIN Leaves : NonIncreasing(Leaves[i])

\* The generation bands of a sequence: its maximal runs of hashes of one
\* generation, each as the set of its hashes.
RECURSIVE Bands(_)
Bands(seq) ==
    IF seq = <<>> THEN <<>>
    ELSE LET rest == Bands(Tail(seq))
             h == Head(seq)
         IN  IF rest # <<>> /\ rest[1].gen = Gen(h)
             THEN <<[gen |-> Gen(h), hashes |-> rest[1].hashes \cup {h}]>>
                      \o Tail(rest)
             ELSE <<[gen |-> Gen(h), hashes |-> {h}]>> \o rest

\* The hashes of a set by generation, highest generation first.
RECURSIVE BandsOfSet(_)
BandsOfSet(S) ==
    IF S = {} THEN <<>>
    ELSE LET g == Max({Gen(h) : h \in S})
             band == {h \in S : Gen(h) = g}
         IN  <<[gen |-> g, hashes |-> band]>> \o BandsOfSet(S \ band)

\* C16: a union over the same generation-ordered inputs in another order
\* emits the same sequence as the first union did.
C16_PermutedSameSequence ==
    (/\ operator = "union" /\ previous # <<>> /\ result = "End"
     /\ LeavesOrdered /\ input_streams # Leaves)
    => emitted = previous[1].emitted

\* C17: a union over two copies of a generation-ordered stream s without
\* repeated hashes emits the sequence s.
C17_TwoCopiesSameSequence ==
    (/\ operator = "union" /\ result = "End"
     /\ Len(input_streams) = 2 /\ input_streams[1] = input_streams[2]
     /\ NonIncreasing(input_streams[1]) /\ NoDuplicates(input_streams[1]))
    => emitted = input_streams[1]

\* C18: a union whose first input is a union over some of the leaf streams
\* emits what a flat union over all the leaf streams emits: every hash of the
\* leaves once, in the same generation bands, highest generation first.
C18_NestedAsFlat ==
    (operator = "union" /\ result = "End" /\ LeavesOrdered)
    => /\ NoDuplicates(emitted)
       /\ Bands(emitted) = BandsOfSet(LeafHashes)

\* C18 witness: an outer union over an inner union of two streams and a third
\* stream ended after emitting hashes of two generations, one of them yielded
\* by the inner union and by the third stream.
C18_Witness ==
    /\ operator = "union" /\ result = "End" /\ previous # <<>>
    /\ Len(input_streams) = 2 /\ Len(previous[1].leaves) = 3
    /\ LeavesOrdered /\ \A i \in DOMAIN Leaves : Leaves[i] # <<>>
    /\ Range(input_streams[1]) \cap Range(input_streams[2]) # {}
    /\ Len(Bands(emitted)) = 2

\* The lookup a range in Stage 1 is waiting for.
LookupInFlight ==
    IF start_generation = <<>> THEN "start"
    ELSE IF pending_nodes = <<>> THEN "none"
    ELSE Head(pending_nodes).kind

\* C21: when a range has returned an error it is still in Stage 1 and has
\* emitted nothing, and the error is ParentsFetchFailed if the lookup that
\* failed is a changeset fetch and GenerationFetchFailed if it is the
\* generation lookup of start, of end or of a parent.
C21_LookupErrors ==
    (operator = "range" /\ result \in ErrorKinds)
    => /\ output_nodes = <<>> /\ emitted = <<>>
       /\ LookupInFlight = "changeset" => result = "ParentsFetchFailed"
       /\ LookupInFlight \in {"start", "end", "parent"}
            => result = "GenerationFetchFailed"
       /\ LookupInFlight # "none"

\* C21 witness: the changeset fetch of a node other than end failed after
\* an edge had been recorded.
C21_Witness ==
    /\ operator = "range" /\ result = "ParentsFetchFailed"
    /\ Len(expanded) >= 2
    /\ children # EmptyMap

\* C22 (as claimed): a range from h to h with h not in the repository fails
\* with RepoError.
C22_UnknownNodeRepoError ==
    (/\ operator = "range" /\ start_node = end_node
     /\ start_node \notin DOMAIN repo /\ result # "None")
    => result = "RepoError"

\* C22 (amended): a range from h to h with h not in the repository fails with
\* GenerationFetchFailed at the generation lookup of start, having emitted
\* nothing.
C22_UnknownNodeGenerationFetchFailed ==
    (/\ operator = "range" /\ start_node = end_node
     /\ start_node \notin DOMAIN repo /\ result # "None")
    => /\ result = "GenerationFetchFailed"
       /\ LookupInFlight = "start"
       /\ emitted = <<>>

\* C22 witness: a range from the unknown node to itself has failed.
C22_Witness ==
    /\ operator = "range" /\ start_node = end_node
    /\ start_node = UnknownNode
    /\ result = "GenerationFetchFailed"

\* The working sets build_output_nodes went through (children does not change
\* once output_nodes is built).
HandledSets ==
    WorkingSets(children, NodesToHandle(children, start_node, start_generation[1]))

\* C23: build_output_nodes takes no node from the working set in more than
\* one iteration of its loop.
C23_HandledOnce ==
    (operator = "range" /\ output_nodes # <<>>)
    => \A i, j \in DOMAIN HandledSets :
            i # j => HandledSets[i] \cap HandledSets[j] = {}

\* The input whose error poll returns: the first one in state Err.
FirstFailed ==
    CHOOSE i \in DOMAIN inputs :
        /\ inputs[i].state.tag = "Err"
        /\ \A j \in DOMAIN inputs : inputs[j].state.tag = "Err" => i <= j

\* C24 (as claimed): once a union has returned an error, every further poll
\* returns the same error, the error of the same input.
C24_SameErrorAgain ==
    [][(operator = "union" /\ result = "Err")
        => /\ result' = "Err"
           /\ inputs'[FirstFailed'].id = inputs[FirstFailed].id]_vars

\* C24 (amended): once a union has returned an error, every further poll
\* returns an error and emits nothing; no input is removed, an input in state
\* Err stays as it is, and the error returned is that of the first failed
\* input in input order, which is never a later input than before.
C24_ErrorAgain ==
    [][(operator = "union" /\ result = "Err")
        => /\ result' = "Err"
           /\ emitted' = emitted
           /\ DOMAIN inputs' = DOMAIN inputs
           /\ \A i \in DOMAIN inputs :
                    inputs[i].state.tag = "Err" => inputs'[i] = inputs[i]
           /\ FirstFailed' <= FirstFailed
           /\ UNCHANGED <<drain, accumulator, current_generation>>]_vars

\* C24 witness: the union returned an error while two of its inputs have
\* failed and the first input holds a hash.
C24_Witness ==
    /\ operator = "union" /\ result = "Err"
    /\ Len(inputs) = 3
    /\ inputs[1].state.tag = "Some"
    /\ inputs[2].state.tag = "Err" /\ inputs[3].state.tag = "Err"

\* The hashes the drain still holds.
InDrain == IF drain = <<>> THEN {} ELSE drain[1]

\* C25: the hashes a union buffers are of one generation: those in the
\* accumulator have the generation of the band being accumulated, the
\* accumulator is empty while the drain holds hashes, and accumulator and
\* drain together never hold two generations.
C25_OneBandBuffered ==
    operator = "union"
    => /\ \A h \in accumulator :
                current_generation # <<>> => Gen(h) = current_generation[1]
       /\ InDrain # {} => accumulator = {}
       /\ \A h1, h2 \in accumulator \cup InDrain : Gen(h1) = Gen(h2)

\* C25 witness: two hashes of one generation are in the accumulator while an
\* input holds a hash of a lower generation.
C25_Witness ==
    /\ operator = "union" /\ InputsOrdered
    /\ Cardinality(accumulator) = 2
    /\ \E i \in DOMAIN inputs :
            /\ inputs[i].state.tag = "Some"
            /\ \A h \in accumulator : inputs[i].state.gen < Gen(h)

\* C26: a range emits nothing and keeps its drain empty while output_nodes is
\* not built; the step that builds it finds the backward walk drained; once
\* it is built no step is a lookup (start_generation, pending_nodes, children
\* and the expanded nodes stay as they are, output_nodes is never rebuilt and
\* no error is returned); so a range that failed has emitted nothing.
C26_TwoPhase ==
    [][operator = "range"
        => /\ output_nodes = <<>> => (emitted = <<>> /\ drain = <<>>)
           /\ (output_nodes = <<>> /\ output_nodes' # <<>>)
                => (pending_nodes = <<>> /\ start_generation # <<>>)
           /\ output_nodes # <<>>
                => /\ output_nodes' # <<>>
                   /\ DOMAIN output_nodes'[1] \subseteq DOMAIN output_nodes[1]
                   /\ UNCHANGED <<start_generation, pending_nodes, children,
                                  expanded>>
                   /\ result' \notin ErrorKinds
           /\ result' \in ErrorKinds => emitted' = <<>>]_vars

\* C26 witness: a range that expanded three nodes in its backward walk has
\* emitted two hashes and holds more in output_nodes.
C26_Witness ==
    /\ operator = "range" /\ result = "Item"
    /\ Len(expanded) >= 3 /\ Len(emitted) = 2
    /\ output_nodes # <<>> /\ DOMAIN output_nodes[1] # {}

\* What a poll does in a state that returned end-of-stream: it returns
\* end-of-stream again and leaves every field as it is.
PollAtEndReturnsEnd ==
    IF operator = "range"
    THEN /\ output_nodes # <<>> /\ DOMAIN output_nodes[1] = {}
         /\ InDrain = {}
    ELSE LET kept == gc_finished_inputs(inputs)
             after == BandStep(kept, current_generation, accumulator)
         IN  /\ InDrain = {} /\ drain = <<>>
             /\ Polled = {} /\ ~HasError(inputs)
             /\ kept = inputs /\ all_inputs_ready(kept)
             /\ after = [inputs |-> inputs, accumulator |-> accumulator,
                         drain |-> drain,
                         current_generation |-> current_generation]
             /\ IsDone(after.inputs, after.drain, after.accumulator)

\* C27: a step taken after end-of-stream was returned changes nothing, and in
\* every state that returned end-of-stream the next poll returns
\* end-of-stream.
C27_EndIsStable ==
    [][/\ result = "End" => UNCHANGED vars
       /\ result' = "End" => PollAtEndReturnsEnd']_vars

\* C27 witness: a range ended after emitting every node of the repository.
C27_Witness ==
    /\ operator = "range" /\ result = "End"
    /\ Range(emitted) = DOMAIN repo

\* C28: no poll panics, and every generation entry of output_nodes holds a
\* hash.
C28_NoPanic ==
    /\ result # "Panic"
    /\ (operator = "range" /\ output_nodes # <<>>)
        => \A g \in DOMAIN output_nodes[1] : output_nodes[1][g] # {}

\* C28 witness: update_current_generation has just opened a band over two
\* inputs, after an earlier band was emitted.
C28_Witness ==
    /\ operator = "union" /\ result = "Continue"
    /\ current_generation # <<>> /\ accumulator = {}
    /\ Len(inputs) = 2 /\ emitted # <<>>
    /\ \A i \in DOMAIN inputs : inputs[i].state.tag = "Some"

\* C29: a second union over the same inputs in the same order emits the
\* sequence the first one emitted.
C29_SameSequenceAgain ==
    (/\ operator = "union" /\ previous # <<>> /\ result = "End"
     /\ LeavesOrdered /\ input_streams = Leaves)
    => emitted = previous[1].emitted

\* The frame at position i of fs is within a part: the last frame before it
\* that is not a Payload is a Header, and that Header has its part_type and
\* part_id.
WithinPart(fs, i) ==
    \E j \in 1..(i - 1) :
        /\ fs[j] = HeaderFrame(fs[i].part_type, fs[i].part_id)
        /\ \A k \in (j + 1)..(i - 1) : fs[k].kind = "Payload"

\* Every Payload and PartEnd frame emitted so far is within a part, and a
\* decoder in a Payload state is within the part of the last Header.
FramesWithinParts ==
    /\ \A i \in DOMAIN frames :
            /\ frames[i].kind \in {"Payload", "PartEnd"} => WithinPart(frames, i)
            /\ frames[i].kind # "panic"
    /\ state.tag = "Payload"
        => WithinPart(Append(frames, PartEndFrame(state.part_type,
                                                  state.part_id)),
                      Len(frames) + 1)

ZeroChunk(b) == Len(b) >= 4 /\ peek_i32(b) = 0

\* C30: every Payload and PartEnd frame of the decoder follows a Header of
\* its part_type and part_id with only Payload frames in between; a decode
\* call that meets a zero-length chunk inside a part emits PartEnd for the
\* part of the last Header, or Discard for a discarded part, consumes the
\* chunk and leaves the decoder in the Header state; and PartEnd is emitted
\* for a zero-length chunk only.
C30_FramesWithinParts ==
    [][operator = "decoder"
        => /\ FramesWithinParts'
           /\ (state.tag \in {"Payload", "DiscardPayload"} /\ ZeroChunk(buf)
               /\ Len(buf') <= Len(buf))
                => /\ state' = Header
                   /\ buf' = SplitOff(buf, 4)
                   /\ result' = "Frame"
                   /\ frames' = Append(frames,
                        IF state.tag = "Payload"
                        THEN PartEndFrame(state.part_type, state.part_id)
                        ELSE DiscardFrame)
           /\ (frames' # frames /\ frames'[Len(frames')].kind = "PartEnd")
                => (ZeroChunk(buf) /\ state.tag = "Payload"
                    /\ state' = Header)]_vars

\* C30 witness: after a part that was ended, a second Header of another
\* part_type and part_id was emitted and then a Payload of that part.
C30_Witness ==
    /\ operator = "decoder" /\ Len(frames) = 4
    /\ frames[1].kind = "Header" /\ frames[2].kind = "PartEnd"
    /\ frames[3].kind = "Header" /\ frames[4].kind = "Payload"
    /\ frames[3].part_type # frames[1].part_type
    /\ frames[3].part_id # frames[1].part_id
    /\ frames[4].part_type = frames[3].part_type

\* A step that is a call of decode: Feed is the only other step, and it
\* makes the buffer longer.
DecodeCalled == operator = "decoder" /\ Len(buf') <= Len(buf)

\* C31: a decode call that finds a zero-length header in the Header state
\* returns a StreamEnd frame and leaves the state StreamEnd without consuming
\* the header; in the StreamEnd state no step leaves it, and every decode
\* call returns a StreamEnd frame and leaves the buffer as it is.
C31_StreamEndAbsorbing ==
    [][DecodeCalled
        => /\ (state = Header /\ ~HeaderIncomplete(buf) /\ peek_i32(buf) = 0)
                => /\ result' = "Frame"
                   /\ frames' = Append(frames, StreamEndFrame)
                   /\ state' = StreamEnd
                   /\ buf' = buf
           /\ state = StreamEnd
                => /\ result' = "Frame"
                   /\ frames' = Append(frames, StreamEndFrame)
                   /\ state' = StreamEnd
                   /\ buf' = buf
           /\ state' = StreamEnd
                => \/ state = StreamEnd
                   \/ state = Header /\ Len(buf) >= 4 /\ peek_i32(buf) = 0]_vars

\* C31 witness: after a part was decoded and ended, the stream ended, and a
\* later decode call returned StreamEnd again while a byte that follows the
\* zero-length header is in the buffer.
C31_Witness ==
    /\ operator = "decoder" /\ state = StreamEnd
    /\ Len(frames) = 4
    /\ frames[1].kind = "Header" /\ frames[2].kind = "PartEnd"
    /\ frames[3] = StreamEndFrame /\ frames[4] = StreamEndFrame
    /\ Len(buf) = 5 /\ buf[5] # 0

SetReturned(c) ==
    /\ calls[c].op = "set"
    /\ calls[c].pc # "done" /\ calls'[c].pc = "done"

\* C33: when a set call that ran on its own returns: if the version passed
\* equals the version the key had at the call (absent for no row), it
\* returns Some(new), new being 0 for a key without a row and the old
\* version plus one otherwise, and the row holds the value passed and the
\* version new; if not, it returns None and the row of the key is as it was
\* at the call.
C33_CompareAndSet ==
    [][operator = "bookmarks"
        => \A c \in Clients :
            SetReturned(c)
            => LET call == calls'[c]
                   old == call.before
                   stored == bookmarks'[call.key]
               IN  IF call.version = SelectVersion(old)
                   THEN /\ call.ret = <<IF old = <<>> THEN <<0>>
                                        ELSE <<old[1].version + 1>>>>
                        /\ stored # <<>>
                        /\ <<stored[1].version>> = call.ret[1]
                        /\ stored[1].value = to_hex(call.value)
                   ELSE /\ call.ret = <<>>
                        /\ stored = old
                        /\ bookmarks' = bookmarks]_vars

\* C33 witness: the set of client 1 found version 1 as passed and made it
\* version 2, and then the set of client 2 on the same key, passing version
\* 1, returned None.
C33_Witness ==
    /\ operator = "bookmarks"
    /\ \A c \in Clients : calls[c].pc = "done" /\ calls[c].op = "set"
    /\ calls[1].key = calls[2].key
    /\ calls[1].version = <<1>> /\ calls[1].ret = <<<<2>>>>
    /\ calls[2].version = <<1>> /\ calls[2].ret = <<>>
    /\ bookmarks[calls[1].key] = <<[value |-> to_hex(1), version |-> 2]>>

\* C34: when two set calls on one key that pass the same version have
\* returned, at most one has returned Some(version), and the row holds the
\* version which that one returned.
C34_OneWinner ==
    (/\ operator = "bookmarks"
     /\ \A c \in Clients : calls[c].pc = "done" /\ calls[c].op = "set"
     /\ \A c, d \in Clients :
            calls[c].key = calls[d].key /\ calls[c].version = calls[d].version)
    => LET winners == {c \in Clients : calls[c].ret # <<>>}
       IN  /\ Cardinality(winners) <= 1
           /\ \A c \in winners :
                SelectVersion(bookmarks[calls[c].key]) = calls[c].ret[1]
====
